---- MODULE Spec2Model ----
(* Model of weather_backend.py: WeatherAPIClient, WeatherDataProcessor and  *)
(* WeatherService.  Strings are sequences of characters; None is NoneVal.   *)
EXTENDS Integers, Sequences, FiniteSets, TLC

\* ---------------------------------------------------------------- bounds
MaxCityLen == 4
MaxKeyLen == 2
MaxDefects == 2
MaxRows == 6
NumDates == 6
MaxNDays == 6
MaxModeRows == 4
NumThreads == 2
MaxClients == 4

\* ------------------------------------------------------------- vocabulary
\* None, kept comparable with strings: a one-element sequence outside Chars
NoneVal == <<"None">>
Whitespace == {" ", "\t"}
Chars == {"a", "b", " ", "\t"}

StrsUpTo(n) == UNION {[1..k -> Chars] : k \in 0..n}

\* exception classes of weather_backend.py, and the builtin ones that escape
WeatherExceptionKinds ==
    {"WeatherException", "CityNotFoundException", "APIRequestException",
     "InvalidInputException"}

NoResult == [kind |-> "none"]
Raise(cls, msg) == [kind |-> "raise", cls |-> cls, msg |-> msg]
Return(v) == [kind |-> "return", value |-> v]

\* ------------------------------------------------------------- str.strip
RECURSIVE lstrip(_)
lstrip(s) ==
    IF s = <<>> THEN <<>>
    ELSE IF Head(s) \in Whitespace THEN lstrip(Tail(s)) ELSE s

RECURSIVE rstrip(_)
rstrip(s) ==
    IF s = <<>> THEN <<>>
    ELSE IF s[Len(s)] \in Whitespace THEN rstrip(SubSeq(s, 1, Len(s) - 1)) ELSE s

strip_lonly(s) == lstrip(s)

strip(s) == rstrip(lstrip(s))

\* Python truthiness of an Optional[str]
Truthy(s) == s # NoneVal /\ s # <<>>

\* ------------------------------------- WeatherService.validate_city_input
validate_city_input(city) ==
    IF ~Truthy(city) \/ strip(city) = <<>>
    THEN Raise("InvalidInputException", "empty")
    ELSE LET normalized == strip(city) IN
         IF Len(normalized) < 2
         THEN Raise("InvalidInputException", "short")
         ELSE Return(normalized)

\* ------------------------------------------------ WeatherAPIClient._do_get
\* What requests.get can produce for one GET: a Timeout, another
\* RequestException, or a response with a status code and a body.  A body is
\* its raw text and what resp.json() makes of it.
Absent == "<absent>"
InvalidJSON == [type |-> "invalid", message |-> Absent, data |-> Absent]
JSONList == [type |-> "list", message |-> Absent, data |-> Absent]
JSONDict(m, d) == [type |-> "dict", message |-> m, data |-> d]

Body(text, json) == [text |-> text, json |-> json]

StatusCodes == {200, 204, 401, 404, 429, 500}

ProviderMessages == {"city not found", "Invalid API key"}

BodyText ==
    [m \in ProviderMessages |->
        IF m = "city not found" THEN "{message: city not found}"
        ELSE "{message: Invalid API key}"]

PlainBodies ==
    {Body("<html>", InvalidJSON), Body("", InvalidJSON), Body("[]", JSONList),
     Body("{}", JSONDict(Absent, Absent)),
     Body("{data}", JSONDict(Absent, "data"))}
    \cup {Body(BodyText[m], JSONDict(m, Absent)) : m \in ProviderMessages}

Timeout == [net |-> "Timeout"]
NetworkError == [net |-> "RequestException"]
Response(status, body) == [net |-> "response", status_code |-> status, body |-> body]

\* resp.json().get("message", default), with the handler's fallback to resp.text
provider_message(body, default) ==
    IF body.json.type = "dict"
    THEN (IF body.json.message # Absent THEN body.json.message ELSE default)
    ELSE body.text

do_get_no404(outcome) ==
    IF outcome.net = "Timeout"
    THEN Raise("APIRequestException", <<"timeout">>)
    ELSE IF outcome.net = "RequestException"
    THEN Raise("APIRequestException", <<"network">>)
    ELSE IF outcome.status_code # 200
    THEN Raise("APIRequestException",
               <<"status", outcome.status_code,
                 provider_message(outcome.body, outcome.body.text)>>)
    ELSE IF outcome.body.json.type # "invalid"
    THEN Return(outcome.body.json)
    ELSE Raise("APIRequestException", <<"decode">>)

do_get(outcome) ==
    IF outcome.net = "Timeout"
    THEN Raise("APIRequestException", <<"timeout">>)
    ELSE IF outcome.net = "RequestException"
    THEN Raise("APIRequestException", <<"network">>)
    ELSE IF outcome.status_code = 404
    THEN Raise("CityNotFoundException",
               <<provider_message(outcome.body, "Not found"), "status 404">>)
    ELSE IF outcome.status_code # 200
    THEN Raise("APIRequestException",
               <<"status", outcome.status_code,
                 provider_message(outcome.body, outcome.body.text)>>)
    ELSE IF outcome.body.json.type # "invalid"
    THEN Return(outcome.body.json)
    ELSE Raise("APIRequestException", <<"decode">>)

BASE_URL_CURRENT == "data/2.5/weather"
BASE_URL_FORECAST == "data/2.5/forecast"

\* --------------------------------- WeatherDataProcessor.parse_current_weather
\* A JSON value is its type and, for numbers and numeric strings, its number;
\* for text, its characters.
Val(t, v) == [t |-> t, v |-> v, s |-> <<>>]
Text(s) == [t |-> "text", v |-> 0, s |-> s]
AbsentVal == Val("absent", 0)

Ok(v) == [ok |-> TRUE, v |-> v, exc |-> ""]
Err(exc) == [ok |-> FALSE, v |-> 0, exc |-> exc]

\* d[key] on the value stored under a key of a mapping
Subscript(x) == IF x.t = "absent" THEN Err("KeyError") ELSE Ok(x)

\* float(x): numbers and numeric strings convert, other strings are a
\* ValueError, everything else a TypeError
float(x) ==
    CASE x.t \in {"num", "intstr", "decstr"} -> Ok(x.v)
      [] x.t = "text" -> Err("ValueError")
      [] OTHER -> Err("TypeError")

\* int(x): as float(x), but a string with a decimal point is a ValueError
int(x) ==
    CASE x.t \in {"num", "intstr"} -> Ok(x.v)
      [] x.t \in {"text", "decstr"} -> Err("ValueError")
      [] OTHER -> Err("TypeError")

Upper(c) == CASE c = "c" -> "C" [] c = "s" -> "S" [] OTHER -> c
Lower(c) == CASE c = "C" -> "c" [] c = "S" -> "s" [] OTHER -> c

\* str.capitalize of the characters; AttributeError on anything but a str
capitalize(x) ==
    IF x.t \in {"text", "intstr", "decstr"}
    THEN Ok([i \in 1..Len(x.s) |-> IF i = 1 THEN Upper(x.s[1]) ELSE Lower(x.s[i])])
    ELSE Err("AttributeError")

\* raw["weather"][0][key]
weather0(raw, key) ==
    CASE raw.weather = "absent" -> Err("KeyError")
      [] raw.weather = "emptylist" -> Err("IndexError")
      [] raw.weather = "dict" -> Err("KeyError")
      [] raw.weather \in {"null", "text", "list_of_text", "num"} -> Err("TypeError")
      [] OTHER -> Subscript(raw[key])

\* raw[section][key] for the "main" and "coord" sections
section(raw, sec, key) ==
    CASE raw[sec] = "absent" -> Err("KeyError")
      [] raw[sec] \in {"null", "text", "list", "num"} -> Err("TypeError")
      [] OTHER -> Subscript(raw[key])

\* raw.get("wind", {}).get("speed", 0.0)
wind_get(raw) ==
    CASE raw.wind = "absent" -> Ok(Val("num", 0))
      [] raw.wind \in {"null", "text", "list", "num"} -> Err("AttributeError")
      [] OTHER -> IF raw.speed.t = "absent" THEN Ok(Val("num", 0)) ELSE Ok(raw.speed)

\* a conversion applied to a value that was found
to_float(r) == IF r.ok THEN float(r.v) ELSE r
to_int(r) == IF r.ok THEN int(r.v) ELSE r
capitalized(r) == IF r.ok THEN capitalize(r.v) ELSE r

\* the keyword arguments of CurrentWeather(...), in evaluation order
FieldResults(raw) ==
    << capitalized(weather0(raw, "description")),
       weather0(raw, "icon"),
       to_float(section(raw, "main", "temp")),
       to_int(section(raw, "main", "pressure")),
       to_int(section(raw, "main", "humidity")),
       to_float(wind_get(raw)),
       to_float(section(raw, "coord", "lat")),
       to_float(section(raw, "coord", "lon")) >>

CaughtByParse == {"KeyError", "IndexError", "TypeError"}

FirstFailure(rs) ==
    LET bad == {i \in 1..Len(rs) : ~rs[i].ok} IN
    IF bad = {} THEN 0 ELSE CHOOSE i \in bad : \A j \in bad : i <= j

parse_current_weather(raw, city_name) ==
    LET rs == FieldResults(raw)
        k == FirstFailure(rs) IN
    IF k = 0
    THEN Return([city |-> city_name, description |-> rs[1].v, icon |-> rs[2].v,
                 temperature |-> rs[3].v, pressure |-> rs[4].v,
                 humidity |-> rs[5].v, wind_speed |-> rs[6].v,
                 latitude |-> rs[7].v, longitude |-> rs[8].v])
    ELSE IF rs[k].exc \in CaughtByParse
    THEN Raise("WeatherException", rs[k].exc)
    ELSE Raise(rs[k].exc, "")

\* the payloads: a well-formed one and what can be wrong with each part
SectionShapes == {"ok", "absent", "null", "text", "list", "num"}
WeatherShapes == {"ok", "absent", "null", "text", "emptylist", "dict", "list_of_text", "num"}
NumberVals(n) ==
    {Val("num", n), Val("intstr", n), Val("decstr", n), Text(<<"c">>),
     Val("null", 0), Val("list", 0), Val("dict", 0), AbsentVal}
TextVals ==
    {Text(<<"c", "S">>), Text(<<>>), Val("num", 5), Val("null", 0),
     Val("list", 0), Val("dict", 0), AbsentVal}

GoodRaw ==
    [weather |-> "ok", description |-> Text(<<"c", "S">>),
     icon |-> Text(<<"0", "1", "d">>),
     main |-> "ok", temp |-> Val("num", 30), pressure |-> Val("num", 1008),
     humidity |-> Val("num", 70),
     wind |-> "ok", speed |-> Val("num", 3),
     coord |-> "ok", lat |-> Val("num", -6), lon |-> Val("num", 106)]

RawFields == DOMAIN GoodRaw

FieldDomain(f) ==
    CASE f = "weather" -> WeatherShapes
      [] f \in {"main", "wind", "coord"} -> SectionShapes
      [] f \in {"description", "icon"} -> TextVals
      [] OTHER -> NumberVals(GoodRaw[f].v)

\* how many fields of a payload differ from the well-formed one
Defects(r) == Cardinality({f \in RawFields : r[f] # GoodRaw[f]})

\* ------------------------------ WeatherDataProcessor.aggregate_daily_forecast
\* A forecast table is a sequence of rows [date, temp, humidity, wind, icon,
\* desc].  Dates are day numbers; icon and desc are the position of the string
\* in sort order, which is all that Series.mode() uses of it.  A mean is kept
\* exact as <<sum, count>>.
Row(d, t, i, x) == [date |-> d, temp |-> t, humidity |-> 70, wind |-> 3, icon |-> i, desc |-> x]

MinOf(S) == CHOOSE x \in S : \A y \in S : x <= y
MaxOf(S) == CHOOSE x \in S : \A y \in S : y <= x

RECURSIVE SortedSeq(_)
SortedSeq(S) == IF S = {} THEN <<>> ELSE <<MinOf(S)>> \o SortedSeq(S \ {MinOf(S)})

Column(df, c) == [i \in 1..Len(df) |-> df[i][c]]
Values(col) == {col[i] : i \in 1..Len(col)}

\* df.groupby("date"): the group keys, sorted ascending
group_keys(df) == SortedSeq(Values(Column(df, "date")))

\* the whole table instead of one group
group_all(df, d) == df

\* the rows of one group, in table order
group(df, d) == SelectSeq(df, LAMBDA r : r.date = d)

RECURSIVE SumSeq(_)
SumSeq(col) == IF col = <<>> THEN 0 ELSE Head(col) + SumSeq(Tail(col))

mean(col) == <<SumSeq(col), Len(col)>>

Count(col, v) == Cardinality({i \in 1..Len(col) : col[i] = v})

\* Series.mode(): the most frequent values, sorted ascending
modes(col) ==
    LET top == MaxOf({Count(col, v) : v \in Values(col)}) IN
    SortedSeq({v \in Values(col) : Count(col, v) = top})

FirstIndex(col, v) == MinOf({i \in 1..Len(col) : col[i] = v})

\* the tie-break by first occurrence
representative_first(col) ==
    LET m == Values(modes(col)) IN
    CHOOSE v \in m : \A w \in m : FirstIndex(col, v) <= FirstIndex(col, w)

\* lambda x: x.mode().iloc[0] if not x.mode().empty else x.iloc[0]
representative(col) == IF modes(col) # <<>> THEN modes(col)[1] ELSE col[1]

daily_row(df, d) ==
    LET g == group(df, d) IN
    [date |-> d,
     min_temp |-> MinOf(Values(Column(g, "temp"))),
     max_temp |-> MaxOf(Values(Column(g, "temp"))),
     mean_temp |-> mean(Column(g, "temp")),
     mean_hum |-> mean(Column(g, "humidity")),
     mean_wind |-> mean(Column(g, "wind")),
     icon |-> representative(Column(g, "icon")),
     desc |-> representative(Column(g, "desc")),
     date_str |-> <<"str", d>>]

head(rows, n) == SubSeq(rows, 1, IF n < Len(rows) THEN n ELSE Len(rows))

Max2(a, b) == IF a >= b THEN a ELSE b
Min2(a, b) == IF a <= b THEN a ELSE b

clamp_days_unclamped(n_days) == n_days

\* max(1, min(n_days, 5))
clamp_days(n_days) == Max2(1, Min2(n_days, 5))

\* a DataFrame built from no rows has no "date" column: groupby raises, and
\* the handler turns it into a WeatherException
aggregate_daily_forecast(df, n_days) ==
    IF df = <<>>
    THEN Raise("WeatherException", "aggregate")
    ELSE LET keys == group_keys(df)
             daily == [i \in 1..Len(keys) |-> daily_row(df, keys[i])] IN
         Return(head(daily, clamp_days(n_days)))

\* ------------------------------------------------ build_forecast_dataframe
SecondsPerDay == 86400

\* datetime.utcfromtimestamp(dt_utc) + timedelta(seconds=tz_offset), in seconds
to_local_datetime(dt_utc, tz_offset) == dt_utc + tz_offset

\* datetime.date(): the day number of a local time
date_of(t) == t \div SecondsPerDay

Entry(dt, main, t, i) == [dt |-> dt, main |-> main, temp |-> t, icon |-> i]

\* what a decoded JSON object holds: the current-weather fields, the forecast
\* list and the city timezone (0 when absent)
Payload(raw, tz, list) == [raw |-> raw, timezone |-> tz, list |-> list]

build_forecast_dataframe(json) ==
    IF json.type # "dict"
    THEN Raise("AttributeError", "")
    ELSE LET entries == json.data.list
             tz_offset == json.data.timezone IN
         IF \E i \in 1..Len(entries) : entries[i].main = "absent"
         THEN Raise("WeatherException", "KeyError")
         ELSE Return([i \in 1..Len(entries) |->
                        Row(date_of(to_local_datetime(entries[i].dt, tz_offset)),
                            entries[i].temp, entries[i].icon, entries[i].icon)])

\* ----------------------------------------------------------- WeatherService
\* WeatherAPIClient.__init__: the key check of the client
client_init(api_key) ==
    IF ~Truthy(api_key) \/ strip(api_key) = <<>>
    THEN Raise("ValueError", "empty key")
    ELSE Return(api_key)

\* _ensure_client, first test: self._api_client is None (0 is None)
client_missing_always(client) == TRUE

client_missing(client) == client = 0

\* _ensure_client, second test: not self._api_key
key_missing(api_key) == ~Truthy(api_key)

\* where a call goes after validate_city_input
after_validate_ignoring(r) == "ensure"

after_validate(r) == IF r.kind = "raise" THEN "done" ELSE "ensure"

\* max(1, min(int(n_entries), 40))
clamp_entries(n) == Max2(1, Min2(n, 40))

\* what each operation does with the decoded JSON
process(op, json, normalized, n) ==
    CASE op = "current" ->
            IF json.type = "dict"
            THEN parse_current_weather(json.data.raw, normalized)
            ELSE Raise("WeatherException", "TypeError")
      [] op = "hourly" ->
            LET t == build_forecast_dataframe(json) IN
            IF t.kind = "raise" THEN t ELSE Return(head(t.value, clamp_entries(n)))
      [] OTHER ->
            LET t == build_forecast_dataframe(json) IN
            IF t.kind = "raise" THEN t
            ELSE aggregate_daily_forecast(t.value, clamp_days(n))

\* ------------------------------------------------- what the provider sends
EmptyRaw ==
    [f \in RawFields |->
        IF f \in {"weather", "main", "wind", "coord"} THEN "absent" ELSE AbsentVal]

NoPayload == Payload(EmptyRaw, 0, <<>>)
CurrentJSON(raw) == JSONDict(Absent, Payload(raw, 0, <<>>))
ForecastJSON(tz, list) == JSONDict(Absent, Payload(EmptyRaw, tz, list))
ErrorJSON(m) == JSONDict(m, NoPayload)
UndecodableJSON == [type |-> "invalid", message |-> Absent, data |-> NoPayload]

\* three 3-hourly samples from 21:00 UTC on day 0, and a list with a broken entry
Samples == <<Entry(75600, "ok", 1, 2), Entry(86400, "ok", 2, 1), Entry(97200, "ok", 1, 1)>>
BrokenSamples == <<Entry(75600, "ok", 1, 2), Entry(86400, "absent", 2, 1)>>

FailedOutcomes ==
    {Timeout, NetworkError,
     Response(404, Body("{message: city not found}", ErrorJSON("city not found"))),
     Response(401, Body("{message: Invalid API key}", ErrorJSON("Invalid API key"))),
     Response(200, Body("<html>", UndecodableJSON))}

CurrentOutcomes ==
    {Response(200, Body("{current}", CurrentJSON(r))) :
        r \in {GoodRaw, [GoodRaw EXCEPT !.main = "absent"],
               [GoodRaw EXCEPT !.wind = "absent"],
               [GoodRaw EXCEPT !.description = Val("num", 5)]}}

ForecastOutcomes ==
    {Response(200, Body("{forecast}", ForecastJSON(tz, l))) :
        tz \in {0, 25200}, l \in {Samples, BrokenSamples, <<>>}}

AllOutcomes(op) ==
    FailedOutcomes \cup (IF op = "current" THEN CurrentOutcomes ELSE ForecastOutcomes)

FewOutcomes(op) ==
    {Timeout} \cup (IF op = "current"
                    THEN {Response(200, Body("{current}", CurrentJSON(GoodRaw)))}
                    ELSE {Response(200, Body("{forecast}", ForecastJSON(0, Samples)))})

KeyChars == {"k", " "}
KeyInputs == {NoneVal} \cup UNION {[1..k -> KeyChars] : k \in 0..MaxKeyLen}
UsableKeys == {<<"k">>}

Ops == {"current", "hourly", "daily"}
ArgN == {0, 2, 6}
ServiceCities == {<<>>, <<" ">>, <<"a">>, <<" ", "a", "b">>}
FewCities == {<<"a", "b">>}

\* ------------------------------------------------------------- variables
VARIABLES vCity, vOut, gUrl, gOutcome, gOut, pRaw, pCity, pOut, df, n_days, daily,
          svc, api_key, api_client, constructed, call

valVars == <<vCity, vOut>>
getVars == <<gUrl, gOutcome, gOut>>
parseVars == <<pRaw, pCity, pOut>>
aggVars == <<df, n_days, daily>>
svcVars == <<svc, api_key, api_client, constructed, call>>
vars == <<vCity, vOut, gUrl, gOutcome, gOut, pRaw, pCity, pOut, df, n_days, daily,
          svc, api_key, api_client, constructed, call>>

CityInputs == StrsUpTo(MaxCityLen) \cup {NoneVal}

ValIdle == vCity = NoneVal /\ vOut = NoResult

GetIdle == gUrl = Absent /\ gOutcome = Timeout /\ gOut = NoResult

ParseIdle == pRaw = GoodRaw /\ pCity = <<>> /\ pOut = NoResult

AggIdle == df = <<>> /\ n_days = 0 /\ daily = NoResult

Threads == 1..NumThreads

NoJSON == [type |-> "none", message |-> Absent, data |-> NoPayload]

IdleCall ==
    [pc |-> "idle", op |-> "none", city |-> NoneVal, n |-> 0, normalized |-> NoneVal,
     mine |-> 0, raw |-> NoJSON, res |-> NoResult, gets |-> 0, steps |-> <<>>]

SvcIdle ==
    /\ svc = "new" /\ api_key = NoneVal /\ api_client = 0 /\ constructed = 0
    /\ call = [t \in Threads |-> IdleCall]

InitValidate ==
    /\ vCity \in CityInputs /\ vOut = NoResult
    /\ GetIdle /\ ParseIdle /\ AggIdle /\ SvcIdle

CallValidate ==
    /\ vOut = NoResult
    /\ vOut' = validate_city_input(vCity)
    /\ UNCHANGED <<vCity, getVars, parseVars, aggVars, svcVars>>

NextValidate == CallValidate

SpecValidate == InitValidate /\ [][NextValidate]_vars

\* -------------------------------------------------------------------- C1
IsBlank(s) == \A i \in 1..Len(s) : s[i] \in Whitespace

\* t is s with leading and trailing whitespace removed and nothing else changed
IsTrimOf(t, s) ==
    \E i \in 1..(Len(s) + 1), j \in 0..Len(s) :
        /\ t = SubSeq(s, i, j)
        /\ \A k \in 1..(i - 1) : s[k] \in Whitespace
        /\ \A k \in (j + 1)..Len(s) : s[k] \in Whitespace
        /\ t # <<>> => (t[1] \notin Whitespace /\ t[Len(t)] \notin Whitespace)

\* C1: validate_city_input raises InvalidInputException on an empty or
\* whitespace-only string and on a string whose trimmed length is under 2,
\* and otherwise returns exactly the trimmed string.
C1_ValidateCity ==
    (vOut # NoResult /\ vCity # NoneVal) =>
        \E t \in StrsUpTo(Len(vCity)) :
            /\ IsTrimOf(t, vCity)
            /\ IF IsBlank(vCity) \/ Len(t) < 2
               THEN vOut.kind = "raise" /\ vOut.cls = "InvalidInputException"
               ELSE vOut = Return(t)

C1_Witness ==
    /\ vOut.kind = "return"
    /\ Len(vOut.value) >= 2
    /\ Len(vOut.value) < Len(vCity)
    /\ \E i \in 1..Len(vOut.value) : vOut.value[i] \in Whitespace
\* --------------------------------------------------------- _do_get alone
PlainOutcomes ==
    {Timeout, NetworkError}
    \cup {Response(st, b) : st \in StatusCodes, b \in PlainBodies}

InitDoGet ==
    /\ gUrl \in {BASE_URL_CURRENT, BASE_URL_FORECAST}
    /\ gOutcome \in PlainOutcomes
    /\ gOut = NoResult
    /\ ValIdle /\ ParseIdle /\ AggIdle /\ SvcIdle

CallDoGet ==
    /\ gOut = NoResult
    /\ gOut' = do_get(gOutcome)
    /\ UNCHANGED <<gUrl, gOutcome, valVars, parseVars, aggVars, svcVars>>

NextDoGet == CallDoGet

SpecDoGet == InitDoGet /\ [][NextDoGet]_vars

\* -------------------------------------------------------------------- C4
IsResponse(st) == gOutcome.net = "response" /\ gOutcome.status_code = st

Raised(out, cls) == out.kind = "raise" /\ out.cls = cls

\* C4: _do_get maps each outcome of the GET to exactly one result: 200 with
\* valid JSON returns the parsed JSON; 404 raises CityNotFoundException with
\* the provider's message; another non-200 status raises APIRequestException
\* with the status code and the provider message (raw body when the body is
\* not JSON); Timeout, another network failure and an undecodable 200 body
\* raise APIRequestException (timeout / network / decode).  Nothing is returned
\* on a non-200 status and nothing else is raised.
C4_DoGetOutcomes ==
    gOut # NoResult =>
        /\ gOutcome.net = "Timeout" => gOut = Raise("APIRequestException", <<"timeout">>)
        /\ gOutcome.net = "RequestException" =>
               gOut = Raise("APIRequestException", <<"network">>)
        /\ gOutcome.net = "response" =>
            LET st == gOutcome.status_code
                b == gOutcome.body IN
            /\ (st = 200 /\ b.json.type # "invalid") => gOut = Return(b.json)
            /\ (st = 200 /\ b.json.type = "invalid") =>
                   gOut = Raise("APIRequestException", <<"decode">>)
            /\ st = 404 =>
                   /\ Raised(gOut, "CityNotFoundException")
                   /\ b.json.message # Absent => gOut.msg[1] = b.json.message
            /\ st \notin {200, 404} =>
                   /\ Raised(gOut, "APIRequestException")
                   /\ gOut.msg[1] = "status" /\ gOut.msg[2] = st
                   /\ b.json.message # Absent => gOut.msg[3] = b.json.message
                   /\ b.json.type = "invalid" => gOut.msg[3] = b.text
            /\ gOut.kind = "return" => st = 200
        /\ gOut.kind = "raise" =>
               gOut.cls \in {"CityNotFoundException", "APIRequestException"}

C4_Witness ==
    /\ IsResponse(404)
    /\ gOutcome.body.json.message = "city not found"
    /\ Raised(gOut, "CityNotFoundException")
    /\ gOut.msg[1] = "city not found"
\* ------------------------------------------- parse_current_weather alone
ParseCities == {<<"a", "b">>, <<"a", " ", "b">>}

InitParse ==
    /\ pRaw = GoodRaw
    /\ pCity \in ParseCities
    /\ pOut = NoResult
    /\ ValIdle /\ GetIdle /\ AggIdle /\ SvcIdle

CallParse ==
    /\ pOut = NoResult
    /\ pOut' = parse_current_weather(pRaw, pCity)
    /\ UNCHANGED <<pRaw, pCity, valVars, getVars, aggVars, svcVars>>

\* the provider's payload deviates in one more field
Damage ==
    /\ pOut = NoResult
    /\ \E f \in RawFields : \E x \in FieldDomain(f) :
        /\ pRaw' = [pRaw EXCEPT ![f] = x]
        /\ Defects(pRaw') <= MaxDefects
    /\ UNCHANGED <<pCity, pOut, valVars, getVars, aggVars, svcVars>>

NextParse == Damage \/ CallParse

SpecParse == InitParse /\ [][NextParse]_vars

\* -------------------------------------------------------------------- C9
IsNumeric(x) == x.t \in {"num", "intstr", "decstr"}
IsWhole(x) == x.t \in {"num", "intstr"}
IsText(x) == x.t \in {"text", "intstr", "decstr"}

WeatherUsable(raw) ==
    /\ raw.weather = "ok"
    /\ IsText(raw.description)
    /\ raw.icon.t # "absent"

WellFormed(raw) ==
    /\ WeatherUsable(raw)
    /\ raw.main = "ok" /\ IsNumeric(raw.temp)
    /\ IsWhole(raw.pressure) /\ IsWhole(raw.humidity)
    /\ raw.wind \in {"ok", "absent"}
    /\ (raw.wind = "ok" /\ raw.speed.t # "absent") => IsNumeric(raw.speed)
    /\ raw.coord = "ok" /\ IsNumeric(raw.lat) /\ IsNumeric(raw.lon)

\* C9: parse_current_weather raises a WeatherException, never another
\* exception, whenever a field is missing or malformed; on a well-formed
\* payload it returns a CurrentWeather with city = cityName and wind_speed 0
\* when the wind section or its speed is absent.
C9_ParseFailsAsProcessing ==
    pOut # NoResult =>
        /\ ~WellFormed(pRaw) => Raised(pOut, "WeatherException")
        /\ WellFormed(pRaw) =>
            /\ pOut.kind = "return"
            /\ pOut.value.city = pCity
            /\ (pRaw.wind = "absent" \/ pRaw.speed.t = "absent") =>
                   pOut.value.wind_speed = 0
\* ---------------------------------------- aggregate_daily_forecast alone
\* The table is filled row by row in the provider's order (ascending time,
\* consecutive calendar days), as build_forecast_dataframe appends them; then
\* it is aggregated, directly or through the clamp of get_daily_forecast.
Temps == {1, 2}
NDays == 0..MaxNDays

LastDate(t) == IF t = <<>> THEN 1 ELSE t[Len(t)].date

InitAgg ==
    /\ df = <<>> /\ n_days = 0 /\ daily = NoResult
    /\ ValIdle /\ GetIdle /\ ParseIdle /\ SvcIdle

AppendRow ==
    /\ daily = NoResult
    /\ Len(df) < MaxRows
    /\ \E d \in {LastDate(df), LastDate(df) + 1}, t \in Temps :
        /\ d <= NumDates
        /\ df' = Append(df, Row(d, t, 1, 1))
    /\ UNCHANGED <<n_days, daily, valVars, getVars, parseVars, svcVars>>

CallAggregate ==
    /\ daily = NoResult
    /\ \E n \in NDays :
        /\ n_days' = n
        /\ daily' = aggregate_daily_forecast(df, n)
    /\ UNCHANGED <<df, valVars, getVars, parseVars, svcVars>>

\* get_daily_forecast after the fetch: clamp, then aggregate
CallDailyForecast ==
    /\ daily = NoResult
    /\ \E n \in NDays :
        /\ n_days' = n
        /\ daily' = aggregate_daily_forecast(df, Max2(1, Min2(n, 5)))
    /\ UNCHANGED <<df, valVars, getVars, parseVars, svcVars>>

NextAgg == AppendRow \/ CallAggregate \/ CallDailyForecast

SpecAgg == InitAgg /\ [][NextAgg]_vars

\* ---------------------------------------------------------------- C5, C6
DatesOf(t) == {t[i].date : i \in 1..Len(t)}
K == Cardinality(DatesOf(df))
RowsOut == daily.value

RECURSIVE TempSum(_)
TempSum(idx) ==
    IF idx = {} THEN 0
    ELSE LET j == CHOOSE x \in idx : TRUE IN df[j].temp + TempSum(idx \ {j})

\* the rows are the n earliest dates of the table, ascending, each computed
\* from the samples of its own date only
EarliestRows(n) ==
    /\ Len(RowsOut) = n
    /\ \A i \in 1..n :
        LET d == RowsOut[i].date
            temps == {df[j].temp : j \in {j \in 1..Len(df) : df[j].date = d}}
            idx == {j \in 1..Len(df) : df[j].date = d} IN
        /\ d \in DatesOf(df)
        /\ Cardinality({e \in DatesOf(df) : e < d}) = i - 1
        /\ RowsOut[i].min_temp \in temps /\ \A x \in temps : RowsOut[i].min_temp <= x
        /\ RowsOut[i].max_temp \in temps /\ \A x \in temps : RowsOut[i].max_temp >= x
        /\ RowsOut[i].mean_temp[2] = Cardinality(idx)
        /\ RowsOut[i].mean_temp[1] = TempSum(idx)

\* C5 as stated: k rows when nDays >= k, else nDays rows, the earliest dates
C5_AsStated ==
    (daily # NoResult /\ df # <<>>) =>
        /\ daily.kind = "return"
        /\ EarliestRows(IF n_days >= K THEN K ELSE n_days)

\* C5 amended: a non-empty table gives min(k, clamp(nDays, 1, 5)) rows, the
\* earliest dates ascending, each aggregated over its own samples.
C5_Amended ==
    (daily # NoResult /\ df # <<>>) =>
        /\ daily.kind = "return"
        /\ EarliestRows(Min2(K, Max2(1, Min2(n_days, 5))))

C5_Witness ==
    /\ daily.kind = "return" /\ K = 6 /\ n_days = 6 /\ Len(RowsOut) = 5

\* C6: a daily table has at most 5 rows and at most clamp(nDays, 1, 5) rows,
\* one row per distinct date, dates strictly ascending.
C6_DailyRowBound ==
    daily.kind = "return" =>
        /\ Len(RowsOut) <= 5
        /\ Len(RowsOut) <= Max2(1, Min2(n_days, 5))
        /\ \A i \in 1..Len(RowsOut) : RowsOut[i].date \in DatesOf(df)
        /\ \A i, j \in 1..Len(RowsOut) : i < j => RowsOut[i].date < RowsOut[j].date

C6_Witness ==
    /\ daily.kind = "return" /\ K = 6 /\ n_days = 0 /\ Len(RowsOut) = 1
\* ------------------------------------------- the representative icon/desc
\* Short tables over two dates in any order, with every icon and description.
Icons == {1, 2}
Descs == {1, 2}
ModeDates == {1, 2}

InitMode ==
    /\ df = <<>> /\ n_days = 0 /\ daily = NoResult
    /\ ValIdle /\ GetIdle /\ ParseIdle /\ SvcIdle

AppendSample ==
    /\ daily = NoResult
    /\ Len(df) < MaxModeRows
    /\ \E d \in ModeDates, i \in Icons, x \in Descs : df' = Append(df, Row(d, 1, i, x))
    /\ UNCHANGED <<n_days, daily, valVars, getVars, parseVars, svcVars>>

NextMode == AppendSample \/ CallAggregate

SpecMode == InitMode /\ [][NextMode]_vars

\* -------------------------------------------------------------------- C7
GroupColumn(d, c) == Column(SelectSeq(df, LAMBDA r : r.date = d), c)

Occurrences(col, v) == Cardinality({i \in 1..Len(col) : col[i] = v})

MostFrequent(col) ==
    {v \in Values(col) : \A w \in Values(col) : Occurrences(col, w) <= Occurrences(col, v)}

FirstAt(col, v) == CHOOSE i \in 1..Len(col) : col[i] = v /\ \A j \in 1..(i - 1) : col[j] # v

InitService ==
    /\ SvcIdle
    /\ ValIdle /\ GetIdle /\ ParseIdle /\ AggIdle

Others == <<valVars, getVars, parseVars, aggVars>>

Step(t, name) == Append(call[t].steps, name)

\* WeatherService.__init__: stores the key, builds no client
ConstructService(keys) ==
    /\ svc = "new"
    /\ \E k \in keys : api_key' = k
    /\ svc' = "live"
    /\ api_client' = 0
    /\ UNCHANGED <<constructed, call, Others>>

\* a caller enters get_current_weather / get_hourly_forecast / get_daily_forecast
Begin(t, ops, cities, exclusive) ==
    /\ svc = "live"
    /\ call[t].pc = "idle"
    /\ exclusive => \A u \in Threads : call[u].pc = "idle"
    /\ \E op \in ops, n \in ArgN, c \in cities :
        /\ op = "current" => n = 0
        /\ op # "current" => c = CHOOSE x \in cities : TRUE
        /\ call' = [call EXCEPT ![t] =
              [IdleCall EXCEPT !.pc = IF op = "current" THEN "validate" ELSE "ensure",
                               !.op = op, !.n = n,
                               !.city = IF op = "current" THEN c ELSE NoneVal]]
    /\ UNCHANGED <<svc, api_key, api_client, constructed, Others>>

\* normalized = self.validate_city_input(city)
Validate(t) ==
    /\ call[t].pc = "validate"
    /\ LET r == validate_city_input(call[t].city) IN
       call' = [call EXCEPT ![t].pc = after_validate(r),
                            ![t].steps = Step(t, "validate"),
                            ![t].res = IF r.kind = "raise" THEN r ELSE NoResult,
                            ![t].normalized = IF r.kind = "return" THEN r.value ELSE NoneVal]
    /\ UNCHANGED <<svc, api_key, api_client, constructed, Others>>

\* _ensure_client: the two tests
EnsureCheck(t) ==
    /\ call[t].pc = "ensure"
    /\ call' = [call EXCEPT
          ![t].steps = Step(t, "ensure"),
          ![t].pc = IF ~client_missing(api_client) THEN "fetch"
                    ELSE IF key_missing(api_key) THEN "done" ELSE "construct",
          ![t].res = IF client_missing(api_client) /\ key_missing(api_key)
                     THEN Raise("APIRequestException", "no key") ELSE call[t].res]
    /\ UNCHANGED <<svc, api_key, api_client, constructed, Others>>

\* _ensure_client: WeatherAPIClient(self._api_key)
ConstructClient(t) ==
    /\ call[t].pc = "construct"
    /\ constructed < MaxClients
    /\ LET r == client_init(api_key) IN
       IF r.kind = "raise"
       THEN /\ call' = [call EXCEPT ![t].pc = "done", ![t].res = r]
            /\ UNCHANGED constructed
       ELSE /\ constructed' = constructed + 1
            /\ call' = [call EXCEPT ![t].pc = "assign", ![t].mine = constructed + 1]
    /\ UNCHANGED <<svc, api_key, api_client, Others>>

\* _ensure_client: self._api_client = <the new client>
AssignClient(t) ==
    /\ call[t].pc = "assign"
    /\ api_client' = call[t].mine
    /\ call' = [call EXCEPT ![t].pc = "fetch"]
    /\ UNCHANGED <<svc, api_key, constructed, Others>>

\* self._api_client.fetch_...(): one GET through _do_get
Fetch(t, few) ==
    /\ call[t].pc = "fetch"
    /\ api_client # 0
    /\ \E o \in (IF few THEN FewOutcomes(call[t].op) ELSE AllOutcomes(call[t].op)) :
        LET r == do_get(o) IN
        call' = [call EXCEPT ![t].gets = call[t].gets + 1,
                             ![t].steps = Step(t, "fetch"),
                             ![t].pc = IF r.kind = "raise" THEN "done" ELSE "parse",
                             ![t].res = IF r.kind = "raise" THEN r ELSE call[t].res,
                             ![t].raw = IF r.kind = "raise" THEN NoJSON ELSE r.value]
    /\ UNCHANGED <<svc, api_key, api_client, constructed, Others>>

\* the processor turns the JSON into the result
Parse(t) ==
    /\ call[t].pc = "parse"
    /\ call' = [call EXCEPT
          ![t].pc = "done",
          ![t].steps = Step(t, "parse"),
          ![t].res = process(call[t].op, call[t].raw, call[t].normalized, call[t].n)]
    /\ UNCHANGED <<svc, api_key, api_client, constructed, Others>>

\* the call returns or raises to its caller
Finish(t) ==
    /\ call[t].pc = "done"
    /\ call' = [call EXCEPT ![t] = IdleCall]
    /\ UNCHANGED <<svc, api_key, api_client, constructed, Others>>

\* one request at a time
Next ==
    \/ ConstructService(KeyInputs)
    \/ \E t \in Threads :
        \/ Begin(t, Ops, ServiceCities, TRUE)
        \/ Validate(t)
        \/ EnsureCheck(t)
        \/ ConstructClient(t)
        \/ AssignClient(t)
        \/ Fetch(t, FALSE)
        \/ Parse(t)
        \/ Finish(t)

Spec == InitService /\ [][Next]_vars

\* several callers share the service and interleave
NextConc ==
    \/ ConstructService(UsableKeys)
    \/ \E t \in Threads :
        \/ Begin(t, {"current"}, FewCities, FALSE)
        \/ Validate(t)
        \/ EnsureCheck(t)
        \/ ConstructClient(t)
        \/ AssignClient(t)
        \/ Fetch(t, TRUE)
        \/ Parse(t)
        \/ Finish(t)

SpecConc == InitService /\ [][NextConc]_vars

\* ----------------------------------------------------- C2, C3, C8, C10
KeyAbsent == api_key = NoneVal \/ IsBlank(api_key)
KeyPresent == ~KeyAbsent

PastEnsure(t) ==
    /\ call[t].pc \in {"fetch", "parse", "done"}
    /\ \E i \in 1..Len(call[t].steps) : call[t].steps[i] = "ensure"

Failed(t) == call[t].pc = "done" /\ call[t].res.kind = "raise"

\* C2: the client starts Unconstructed; the first operation that gets through
\* _ensure_client with a key present leaves it Ready; once Ready it stays the
\* same client whatever later calls do; with the key absent the operation
\* fails, the client stays Unconstructed and the next call tries again.
C2_ClientLifecycle ==
    /\ [](svc = "new" => api_client = 0)
    /\ [](\A t \in Threads :
            /\ (PastEnsure(t) /\ KeyPresent) => api_client # 0
            /\ (PastEnsure(t) /\ KeyAbsent) => (Failed(t) /\ api_client = 0)
            /\ (KeyAbsent /\ call[t].pc \in {"construct", "assign"}) => api_client = 0)
    /\ [][api_client # 0 => api_client' = api_client]_vars
    /\ [][\A t \in Threads :
            (call[t].pc = "ensure" /\ api_client = 0 /\ Truthy(api_key))
                => call'[t].pc \in {"ensure", "construct"}]_vars

\* a later call that fails upstream finds the client of an earlier call
C2_Witness ==
    \E t \in Threads :
        /\ Failed(t) /\ call[t].res.cls = "CityNotFoundException"
        /\ call[t].mine = 0
        /\ api_client = 1 /\ constructed = 1

\* C3: with a key that is None, empty or blank, an operation that needs the
\* network fails with APIRequestException and issues no HTTP request.
C3_AbsentKeyIsAPIRequestError ==
    \A t \in Threads :
        (svc = "live" /\ KeyAbsent /\ PastEnsure(t)) =>
            /\ call[t].pc = "done"
            /\ Raised(call[t].res, "APIRequestException")
            /\ call[t].gets = 0

\* C8: over all interleavings at most one WeatherAPIClient is constructed
C8_AtMostOneConstruction == constructed <= 1

IsPrefix(a, b) == Len(a) <= Len(b) /\ a = SubSeq(b, 1, Len(a))

InvalidCity(c) == c = NoneVal \/ IsBlank(c) \/ \E x \in Chars : c = <<x>>

\* C10: get_current_weather runs validate, ensure, fetch, parse in that order
\* and each at most once; at most one GET per call; a city that fails
\* validation raises InvalidInputException whatever the key, with no GET and
\* the client untouched; a failed client construction issues no GET.
C10_SingleShotOrder ==
    /\ [](\A t \in Threads :
            /\ call[t].gets <= 1
            /\ call[t].op = "current" =>
                   IsPrefix(call[t].steps, <<"validate", "ensure", "fetch", "parse">>)
            /\ (call[t].op = "current" /\ call[t].pc # "validate" /\ InvalidCity(call[t].city)) =>
                   /\ call[t].pc = "done"
                   /\ Raised(call[t].res, "InvalidInputException")
                   /\ call[t].gets = 0
                   /\ call[t].steps = <<"validate">>
            /\ (call[t].pc = "done" /\ call[t].mine = 0 /\ api_client = 0) =>
                   call[t].gets = 0)
    /\ [][\A t \in Threads :
            (call[t].pc = "validate" /\ call'[t].pc = "done") =>
                (api_client' = api_client /\ constructed' = constructed)]_vars

C10_Witness ==
    \E t \in Threads :
        /\ call[t].op = "current" /\ call[t].city = <<" ">>
        /\ api_key = NoneVal
        /\ Raised(call[t].res, "InvalidInputException")
        /\ call[t].pc = "done"
====
